---- MODULE Spec2Model ----
(***************************************************************************)
(* filen-relay: the server lifecycle orchestrator (ServerManager), the     *)
(* per-server log buffer (IncrementalVec) and the reverse-proxy target     *)
(* resolver (ServerResolver).                                              *)
(***************************************************************************)
EXTENDS Integers, Sequences, FiniteSets, TLC

(***************************************************************************)
(* Bounds of the model.                                                    *)
(***************************************************************************)
MaxIds == 2
MaxStored == 1
MaxRequests == 2
MaxPorts == 2
MaxOutput == 1
Capacity == 2
MaxSubs == 1
MaxRows == 2
MaxViewers == 1
MaxVersion == 2

(***************************************************************************)
(* Program constants.                                                      *)
(***************************************************************************)
UpdatesCapacity == 100
MinIdLen == 4

(***************************************************************************)
(* Server ids.  A ServerId is the text of a v4 uuid; it is modelled as a   *)
(* sequence of characters so that short() is computed, not assumed.        *)
(***************************************************************************)
IdDigits == <<"4", "5", "6", "7", "8", "9">>

Uuid(i) == <<"a", "b", "1", "2", "c", "d", "3", IdDigits[i], "-", "0">>

ServerIds == {Uuid(i) : i \in 1..MaxIds}

NewReused(used) == {Uuid(1)}

\* ServerId::new: a fresh v4 uuid, different from every id generated before
\* (ids are opaque, so the next unused one of the pool stands for any of them)
New(used) == {Uuid(i) : i \in {Cardinality(used) + 1} \cap (1..MaxIds)}

\* position of the first '-' in s, 0 when there is none
FirstDash(s) ==
    IF \E i \in 1..Len(s) : s[i] = "-"
    THEN CHOOSE i \in 1..Len(s) : s[i] = "-" /\ \A j \in 1..(i - 1) : s[j] # "-"
    ELSE 0

\* ServerId::short: the part before the first '-' (split_once('-').unwrap().0)
short(id) == SubSeq(id, 1, FirstDash(id) - 1)

Ports == 1..MaxPorts

(***************************************************************************)
(* IncrementalVec<LogLine>: the history Vec plus a tokio broadcast sender. *)
(* The broadcast channel is a ring of `cap` slots: buf holds the values at *)
(* positions tail - Len(buf) .. tail - 1, rx_cnt is the number of live     *)
(* receivers.                                                              *)
(***************************************************************************)
LogLine(time, kind, text) == [timestamp |-> time, content |-> <<kind, text>>]

IncrementalVec_new(capacity) ==
    [vec |-> <<>>, cap |-> capacity, buf |-> <<>>, tail |-> 0, rx_cnt |-> 0]

LastN(s, n) == IF Len(s) <= n THEN s ELSE SubSeq(s, Len(s) - n + 1, Len(s))

\* broadcast::Sender::send: Err (nothing stored) without receivers
broadcast_send(self, item) ==
    IF self.rx_cnt = 0
    THEN self
    ELSE [self EXCEPT !.buf = LastN(Append(self.buf, item), self.cap),
                      !.tail = self.tail + 1]

\* IncrementalVec::push
IncrementalVec_push(self, item) ==
    broadcast_send([self EXCEPT !.vec = Append(self.vec, item)], item)

(***************************************************************************)
(* State of one log sink with its streaming subscribers (api::get_logs),   *)
(* and of the reverse proxy (the last request and its resolved target).    *)
(***************************************************************************)
VARIABLES
    sink,           \* an IncrementalVec<LogLine> behind its Mutex
    subs,           \* per subscriber: the state of its get_logs stream task
    request,        \* the last proxied request: route, id, rest
    target          \* the target ServerResolver::resolve returned for it

logVars == <<sink, subs>>

proxyVars == <<request, target>>

Subscribers == 1..MaxSubs

NoSubscriber ==
    [pc |-> "idle", client |-> TRUE, history |-> <<>>, next |-> 0, delivered |-> <<>>]

NoRequest == [route |-> "none", id |-> <<>>, rest |-> <<>>]

NoTarget == <<>>

(***************************************************************************)
(* State of the watch channel of the live state table beside its value:    *)
(* the channel's version counter, and the stream tasks of api::get_servers.*)
(***************************************************************************)
VARIABLES
    version,        \* the watch channel's version: the number of send_modify calls
    viewers         \* per viewer: the state of its get_servers stream task

watchVars == <<version, viewers>>

Viewers == 1..MaxViewers

NoSnapshot == <<"none">>

NoViewer ==
    [pc |-> "idle", session |-> "none", client |-> TRUE, seen |-> 0, got |-> NoSnapshot]

(***************************************************************************)
(* State of the orchestrator.                                              *)
(***************************************************************************)
VARIABLES
    db,             \* ids of the rows of the servers table of the spec store
    used,           \* server ids generated so far
    updates,        \* the mpsc queue of ServerSpecUpdate requests
    sent,           \* number of requests admitted to the queue so far
    pc,             \* position of the control loop (ServerManager::run)
    todo,           \* specs loaded at startup that are still to be started
    spec,           \* the spec id the control loop is working on
    ret,            \* where start_server returns to: "startup" or "recv"
    run,            \* index of the current start_server call (its logs id)
    port,           \* the port allocated by the current start_server call
    server_states,  \* the watch channel's value: Vec<ServerState>
    stop_handles,   \* HashMap<ServerId, StopServerHandle>: pairs <<id, run>>
    logs,           \* the log registry: logs id -> IncrementalVec<LogLine>
    process,        \* per start_server call: the child process
    supervisor,     \* per start_server call: the supervisor task
    tracing,        \* the last line written with tracing::error!/info! by run()
    replies         \* the results update_server_spec returned to its callers

orchVars == <<db, used, updates, sent, pc, todo, spec, ret, run, port,
              server_states, stop_handles, logs, process, supervisor, tracing,
              replies>>

NoId == <<>>
NoPort == 0

ServerState(id, status, p, logs_id) ==
    [id |-> id, status |-> status, port |-> p, logs_id |-> logs_id]

\* states.iter().position of the first row with this id, 0 when absent
Find(states, id) ==
    IF \E i \in 1..Len(states) : states[i].id = id
    THEN CHOOSE i \in 1..Len(states) :
            states[i].id = id /\ \A j \in 1..(i - 1) : states[j].id # id
    ELSE 0

\* server_states.retain(|s| s.spec.id != id)
Retain(states, id) == SelectSeq(states, LAMBDA s : s.id # id)

\* if let Some(s) = iter_mut().find(|s| s.spec.id == id) { s.status = ... }
SetStatus(states, id, status, p) ==
    LET i == Find(states, id)
    IN  IF i = 0 THEN states
        ELSE [states EXCEPT ![i].status = status, ![i].port = p]

Rows(states, id) == {i \in 1..Len(states) : states[i].id = id}

\* log_info / log_err / log_output: push one line onto the run's log
Log(n, kind, text) ==
    logs' = [logs EXCEPT ![n] =
                IncrementalVec_push(@, LogLine(Len(@.vec) + 1, kind, text))]

Trace(msg, id) == tracing' = <<msg, id>>

Init ==
    /\ sink = IncrementalVec_new(Capacity)
    /\ subs = [s \in Subscribers |-> NoSubscriber]
    /\ request = NoRequest
    /\ target = NoTarget
    /\ db \in {{Uuid(i) : i \in 1..k} : k \in 0..MaxStored}
    /\ used = db
    /\ updates = <<>>
    /\ sent = 0
    /\ pc = "load"
    /\ todo = <<>>
    /\ spec = NoId
    /\ ret = "startup"
    /\ run = 0
    /\ port = NoPort
    /\ server_states = <<>>
    /\ stop_handles = {}
    /\ logs = <<>>
    /\ process = <<>>
    /\ supervisor = <<>>
    /\ tracing = <<"", NoId>>
    /\ replies = <<>>
    /\ version = 0
    /\ viewers = [v \in Viewers |-> NoViewer]

(***************************************************************************)
(* The callers of ServerManagerApi::update_server_spec: api::add_server    *)
(* admits an Add for a spec with a fresh ServerId, api::remove_server      *)
(* admits a Remove for an id that has a row at the time of the call.       *)
(***************************************************************************)
Update(type, id) == [type |-> type, id |-> id]

\* the accounts that hold sessions
Emails == {"a@filen", "b@filen"}

\* spec.filen_email: the account whose session added the spec, here fixed by
\* the id
filen_email(id) == IF id = Uuid(1) THEN "a@filen" ELSE "b@filen"

update_server_spec_try(update) ==
    IF pc = "exited" \/ updates # <<>>
    THEN /\ replies' = Append(replies, "Err")
         /\ UNCHANGED updates
    ELSE /\ replies' = Append(replies, "Ok")
         /\ updates' = Append(updates, update)

\* update_server_spec: updates_tx.send(update).await.context(..), Err once the
\* receiver is gone
update_server_spec(update) ==
    IF pc = "exited"
    THEN /\ replies' = Append(replies, "Err")
         /\ UNCHANGED updates
    ELSE /\ replies' = Append(replies, "Ok")
         /\ updates' = Append(updates, update)

add_server ==
    /\ Len(updates) < UpdatesCapacity
    /\ sent < MaxRequests
    /\ \E id \in New(used) :
        /\ used' = used \cup {id}
        /\ update_server_spec(Update("Add", id))
    /\ sent' = sent + 1
    /\ UNCHANGED <<logVars, proxyVars, watchVars, db, pc, todo, spec, ret, run, port, server_states,
                   stop_handles, logs, process, supervisor, tracing>>

\* api::remove_server called in a session of account email:
\* find(|s| s.spec.id == id && s.spec.filen_email == session.filen_email)
api_remove_server(email) ==
    /\ Len(updates) < UpdatesCapacity
    /\ sent < MaxRequests
    /\ \E id \in ServerIds :
        /\ Find(server_states, id) # 0
        /\ filen_email(id) = email
        /\ update_server_spec(Update("Remove", id))
    /\ sent' = sent + 1
    /\ UNCHANGED <<logVars, proxyVars, watchVars, db, used, pc, todo, spec, ret, run, port, server_states,
                   stop_handles, logs, process, supervisor, tracing>>

remove_server == \E email \in Emails : api_remove_server(email)

(***************************************************************************)
(* ServerManager::run: startup.                                            *)
(***************************************************************************)
Orderings(S) ==
    {q \in [1..Cardinality(S) -> S] : \A i, j \in DOMAIN q : i # j => q[i] # q[j]}

run_get_servers ==
    /\ pc = "load"
    /\ \/ /\ \E q \in Orderings(db) : todo' = q
          /\ pc' = "startup"
          /\ UNCHANGED tracing
       \/ /\ Trace("Failed to load server specs from database", NoId)
          /\ pc' = "exited"
          /\ UNCHANGED todo
    /\ UNCHANGED <<logVars, proxyVars, watchVars, replies, db, used, updates, sent, spec, ret, run, port, server_states,
                   stop_handles, logs, process, supervisor>>

run_startup_next ==
    /\ pc = "startup"
    /\ IF todo # <<>>
       THEN /\ spec' = Head(todo)
            /\ todo' = Tail(todo)
            /\ ret' = "startup"
            /\ pc' = "logs"
       ELSE /\ pc' = "recv"
            /\ spec' = NoId
            /\ UNCHANGED <<todo, ret>>
    /\ UNCHANGED <<logVars, proxyVars, watchVars, replies, db, used, updates, sent, run, port, server_states,
                   stop_handles, logs, process, supervisor, tracing>>

(***************************************************************************)
(* ServerManager::run: the request loop.                                   *)
(***************************************************************************)
recv_newest(q) == [update |-> q[Len(q)], rest |-> SubSeq(q, 1, Len(q) - 1)]

\* updates_rx.recv().await: the oldest request leaves the queue
recv(q) == [update |-> Head(q), rest |-> Tail(q)]

run_recv_Add ==
    /\ pc = "recv"
    /\ updates # <<>>
    /\ recv(updates).update.type = "Add"
    /\ updates' = recv(updates).rest
    /\ spec' = recv(updates).update.id
    /\ Trace("Adding server spec", recv(updates).update.id)
    /\ pc' = "create"
    /\ UNCHANGED <<logVars, proxyVars, watchVars, replies, db, used, sent, todo, ret, run, port, server_states,
                   stop_handles, logs, process, supervisor>>

create_server_start_anyway(id) ==
    /\ db' = db
    /\ pc' = "logs"
    /\ Trace("Failed to create server spec in database", id)

\* db::create_server: INSERT (fails on an id already stored), then upload
create_server(id) ==
    \/ /\ id \notin db
       /\ db' = db \cup {id}
       /\ pc' = "logs"
       /\ UNCHANGED tracing
    \/ /\ id \notin db
       /\ db' = db \cup {id}                      \* stored, upload failed
       /\ pc' = "recv"
       /\ Trace("Failed to create server spec in database", id)
    \/ /\ db' = db                                \* INSERT failed
       /\ pc' = "recv"
       /\ Trace("Failed to create server spec in database", id)

run_create_server ==
    /\ pc = "create"
    /\ create_server(spec)
    /\ ret' = "recv"
    /\ UNCHANGED <<logVars, proxyVars, watchVars, replies, used, updates, sent, todo, spec, run, port, server_states,
                   stop_handles, logs, process, supervisor>>

RemoveLookupAny(states, id) == IF Len(states) > 0 THEN 1 ELSE 0

\* states.iter().find(|s| s.spec.id == id) of the Remove branch
RemoveLookup(states, id) == Find(states, id)

run_recv_Remove ==
    /\ pc = "recv"
    /\ updates # <<>>
    /\ recv(updates).update.type = "Remove"
    /\ updates' = recv(updates).rest
    /\ LET id == recv(updates).update.id
       IN  IF RemoveLookup(server_states, id) = 0
           THEN /\ Trace("Server spec not found", id)
                /\ pc' = "recv"
                /\ UNCHANGED spec
           ELSE /\ spec' = id
                /\ pc' = "delete"
                /\ UNCHANGED tracing
    /\ UNCHANGED <<logVars, proxyVars, watchVars, replies, db, used, sent, todo, ret, run, port, server_states,
                   stop_handles, logs, process, supervisor>>

\* db::delete_server: DELETE, then upload
delete_server(id) ==
    \/ /\ db' = db \ {id}
       /\ pc' = "stop"
       /\ Trace("Removing server spec", id)
    \/ /\ db' = db \ {id}                         \* deleted, upload failed
       /\ pc' = "recv"
       /\ Trace("Failed to delete server spec from database", id)
    \/ /\ db' = db                                \* DELETE failed
       /\ pc' = "recv"
       /\ Trace("Failed to delete server spec from database", id)

run_delete_server ==
    /\ pc = "delete"
    /\ delete_server(spec)
    /\ UNCHANGED <<logVars, proxyVars, watchVars, replies, used, updates, sent, todo, spec, ret, run, port, server_states,
                   stop_handles, logs, process, supervisor>>

Handle(id) == {h \in stop_handles : h[1] = id}

SendStopLost(sup, n) == sup

\* oneshot::Sender::send: delivered while the receiver is still alive
SendStop(sup, n) ==
    IF sup[n].pc = "select" /\ sup[n].stop = "open"
    THEN [sup EXCEPT ![n].stop = "sent"]
    ELSE [sup EXCEPT ![n].stop = "dropped"]

stop_server_and_retain(id) ==
    /\ stop_handles' = stop_handles \ Handle(id)
    /\ supervisor' = IF Handle(id) = {} THEN supervisor
                     ELSE SendStop(supervisor, (CHOOSE h \in Handle(id) : TRUE)[2])
    /\ server_states' = Retain(server_states, id)
    /\ IF Handle(id) = {} THEN Trace("Failed to stop server", id)
       ELSE UNCHANGED tracing

\* ServerManager::stop_server, and run() logging its error
stop_server(id) ==
    /\ stop_handles' = stop_handles \ Handle(id)
    /\ supervisor' = IF Handle(id) = {} THEN supervisor
                     ELSE SendStop(supervisor, (CHOOSE h \in Handle(id) : TRUE)[2])
    /\ UNCHANGED server_states
    /\ IF Handle(id) = {} THEN Trace("Failed to stop server", id)
       ELSE UNCHANGED tracing

run_stop_server ==
    /\ pc = "stop"
    /\ stop_server(spec)
    /\ pc' = "recv"
    /\ UNCHANGED <<logVars, proxyVars, watchVars, replies, db, used, updates, sent, todo, spec, ret, run, port,
                   logs, process>>

(***************************************************************************)
(* ServerManager::start_server, one action per step of the call.           *)
(***************************************************************************)
LogCapacity == 100

NoProcess == [state |-> "none", port |-> NoPort, status |-> 0, out |-> 0]
NoSupervisor(id) == [id |-> id, pc |-> "none", stop |-> "none", res |-> "none"]

\* the id start_server call n was made for
IdOf(n) == supervisor[n].id

\* self.logs.insert(logs_id, Logs { .. IncrementalVec::new(100) })
start_setup_logs ==
    /\ pc = "logs"
    /\ run' = Len(logs) + 1
    /\ logs' = Append(logs, IncrementalVec_new(LogCapacity))
    /\ process' = Append(process, NoProcess)
    /\ supervisor' = Append(supervisor, NoSupervisor(spec))
    /\ port' = NoPort
    /\ pc' = "log_starting"
    /\ UNCHANGED <<logVars, proxyVars, watchVars, replies, db, used, updates, sent, todo, spec, ret, server_states,
                   stop_handles, tracing>>

start_log_starting ==
    /\ pc = "log_starting"
    /\ Log(run, "Event", "Starting server...")
    /\ pc' = "pending"
    /\ UNCHANGED <<logVars, proxyVars, watchVars, replies, db, used, updates, sent, todo, spec, ret, run, port,
                   server_states, stop_handles, process, supervisor, tracing>>

PushStartingOtherLogs(states, id, logs_id) ==
    Append(states, ServerState(id, "Starting", NoPort, logs_id + 1))

\* server_states.push(ServerState { spec, status: Starting, logs_id })
PushStarting(states, id, logs_id) ==
    Append(states, ServerState(id, "Starting", NoPort, logs_id))

start_set_pending ==
    /\ pc = "pending"
    /\ server_states' = PushStarting(server_states, spec, run)
    /\ pc' = "auth"
    /\ UNCHANGED <<logVars, proxyVars, watchVars, replies, db, used, updates, sent, todo, spec, ret, run, port,
                   stop_handles, logs, process, supervisor, tracing>>

start_failed_exit ==
    /\ Trace("Failed to start server", spec)
    /\ pc' = "exited"
    /\ UNCHANGED <<server_states, logs>>

\* `?` in start_server: the error goes to run(), which writes it to tracing
start_failed ==
    /\ Trace("Failed to start server", spec)
    /\ pc' = ret
    /\ UNCHANGED <<server_states, logs>>

\* authenticate_filen_client(..).await.context(..)?
start_authenticate ==
    /\ pc = "auth"
    /\ \/ /\ pc' = "port"
          /\ UNCHANGED <<tracing, server_states, logs>>
       \/ start_failed
    /\ UNCHANGED <<logVars, proxyVars, watchVars, replies, db, used, updates, sent, todo, spec, ret, run, port,
                   stop_handles, process, supervisor>>

Bound == {process[n].port : n \in {m \in 1..Len(process) : process[m].state = "alive"}}

\* free_local_ipv4_port().context(..)?
start_free_port ==
    /\ pc = "port"
    /\ \/ /\ \E p \in Ports \ Bound : port' = p
          /\ pc' = "spawn"
          /\ UNCHANGED <<tracing, server_states, logs>>
       \/ /\ start_failed
          /\ UNCHANGED port
    /\ UNCHANGED <<logVars, proxyVars, watchVars, replies, db, used, updates, sent, todo, spec, ret, run,
                   stop_handles, process, supervisor>>

\* start_basic_server(..).await.context(..)?
start_basic_server ==
    /\ pc = "spawn"
    /\ \/ /\ process' = [process EXCEPT ![run].state = "alive", ![run].port = port]
          /\ pc' = "log_started"
          /\ UNCHANGED <<tracing, server_states, logs>>
       \/ /\ start_failed
          /\ UNCHANGED process
    /\ UNCHANGED <<logVars, proxyVars, watchVars, replies, db, used, updates, sent, todo, spec, ret, run, port,
                   stop_handles, supervisor>>

start_log_started_late ==
    /\ pc = "log_started"
    /\ pc' = "running"
    /\ UNCHANGED <<logVars, proxyVars, watchVars, replies, db, used, updates, sent, todo,
                   spec, ret, run, port, server_states, stop_handles, logs, process,
                   supervisor, tracing>>

\* log_info("Server started successfully.")
start_log_started ==
    /\ pc = "log_started"
    /\ Log(run, "Event", "Server started successfully.")
    /\ pc' = "running"
    /\ UNCHANGED <<logVars, proxyVars, watchVars, replies, db, used, updates, sent, todo, spec, ret, run, port,
                   server_states, stop_handles, process, supervisor, tracing>>

SetRunningOtherPort(states, id, p) ==
    SetStatus(states, id, "Running", IF p = 1 THEN MaxPorts ELSE 1)

\* s.status = ServerStatus::Running { port }
SetRunning(states, id, p) == SetStatus(states, id, "Running", p)

start_set_running ==
    /\ pc = "running"
    /\ server_states' = SetRunning(server_states, spec, port)
    /\ pc' = "supervise"
    /\ UNCHANGED <<logVars, proxyVars, watchVars, replies, db, used, updates, sent, todo, spec, ret, run, port,
                   stop_handles, logs, process, supervisor, tracing>>

\* stop_handles.insert(id, stop_server_tx); the previous sender is dropped
InsertHandle(sup, handles, id, n) ==
    [m \in 1..Len(sup) |->
        IF m = n THEN [sup[m] EXCEPT !.pc = "select", !.stop = "open"]
        ELSE IF <<id, m>> \in handles /\ sup[m].stop = "open"
             THEN [sup[m] EXCEPT !.stop = "dropped"]
             ELSE sup[m]]

\* the oneshot channel, stop_handles.insert and tokio::spawn of the supervisor
start_supervise ==
    /\ pc = "supervise"
    /\ supervisor' = InsertHandle(supervisor, stop_handles, spec, run)
    /\ stop_handles' = (stop_handles \ Handle(spec)) \cup {<<spec, run>>}
    /\ pc' = ret
    /\ UNCHANGED <<logVars, proxyVars, watchVars, replies, db, used, updates, sent, todo, spec, ret, run, port,
                   server_states, logs, process, tracing>>

(***************************************************************************)
(* The child process and the tasks spawned by start_server.                *)
(***************************************************************************)
\* the child terminates on its own, with status 0 or with a failure status
process_exit(n) ==
    /\ process[n].state = "alive"
    /\ \E st \in {0, 1} :
        process' = [process EXCEPT ![n].state = "exited", ![n].status = st]
    /\ UNCHANGED <<logVars, proxyVars, watchVars, replies, db, used, updates, sent, pc, todo, spec, ret, run, port,
                   server_states, stop_handles, logs, supervisor, tracing>>

RECURSIVE Sum(_, _)
Sum(f, i) == IF i = 0 THEN 0 ELSE f[i].out + Sum(f, i - 1)

\* lines of child output piped so far, over all children
Piped == Sum(process, Len(process))

\* the stdout/stderr readers: log_output(&line) for each line of the child
pipe_output(n) ==
    /\ supervisor[n].pc # "none"
    /\ Piped < MaxOutput
    /\ process' = [process EXCEPT ![n].out = @ + 1]
    /\ Log(n, "ServerProcess", "output")
    /\ UNCHANGED <<logVars, proxyVars, watchVars, replies, db, used, updates, sent, pc, todo, spec, ret, run, port,
                   server_states, stop_handles, supervisor, tracing>>

\* select!: `_ = stop_server_rx` is ready once a stop was sent or the sender
\* was dropped; then server.process.kill().await
supervisor_stop(n) ==
    /\ supervisor[n].pc = "select"
    /\ supervisor[n].stop \in {"sent", "dropped"}
    /\ \/ /\ process' = [process EXCEPT ![n].state =
                            IF @ = "alive" THEN "killed" ELSE @]
          /\ supervisor' = [supervisor EXCEPT ![n].pc = "stop_log", ![n].res = "kill_ok"]
       \/ /\ UNCHANGED process
          /\ supervisor' = [supervisor EXCEPT ![n].pc = "stop_log", ![n].res = "kill_err"]
    /\ UNCHANGED <<logVars, proxyVars, watchVars, replies, db, used, updates, sent, pc, todo, spec, ret, run, port,
                   server_states, stop_handles, logs, tracing>>

\* log_err("Failed to stop server: ..") or log_info("Server stopped.")
supervisor_stop_log(n) ==
    /\ supervisor[n].pc = "stop_log"
    /\ IF supervisor[n].res = "kill_err"
       THEN Log(n, "Event", "Failed to stop server")
       ELSE Log(n, "Event", "Server stopped.")
    /\ supervisor' = [supervisor EXCEPT ![n].pc = "stop_retain"]
    /\ UNCHANGED <<logVars, proxyVars, watchVars, replies, db, used, updates, sent, pc, todo, spec, ret, run, port,
                   server_states, stop_handles, process, tracing>>

supervisor_stop_retain_if_killed(n) ==
    /\ supervisor[n].pc = "stop_retain"
    /\ server_states' = IF supervisor[n].res = "kill_ok"
                        THEN Retain(server_states, IdOf(n)) ELSE server_states
    /\ supervisor' = [supervisor EXCEPT ![n].pc = "done"]
    /\ UNCHANGED <<logVars, proxyVars, watchVars, replies, db, used, updates, sent, pc,
                   todo, spec, ret, run, port, stop_handles, logs, process, tracing>>

\* server_states.retain(|s| s.spec.id != spec.id) of the stop branch
supervisor_stop_retain(n) ==
    /\ supervisor[n].pc = "stop_retain"
    /\ server_states' = Retain(server_states, IdOf(n))
    /\ supervisor' = [supervisor EXCEPT ![n].pc = "done"]
    /\ UNCHANGED <<logVars, proxyVars, watchVars, replies, db, used, updates, sent, pc, todo, spec, ret, run, port,
                   stop_handles, logs, process, tracing>>

\* select!: `status = server.process.wait()` is ready once the child exited
supervisor_wait(n) ==
    /\ supervisor[n].pc = "select"
    /\ process[n].state = "exited"
    /\ \E r \in {IF process[n].status = 0 THEN "exit_ok" ELSE "exit_fail", "wait_err"} :
        supervisor' = [supervisor EXCEPT ![n].pc = "exit_log", ![n].res = r]
    /\ UNCHANGED <<logVars, proxyVars, watchVars, replies, db, used, updates, sent, pc, todo, spec, ret, run, port,
                   server_states, stop_handles, logs, process, tracing>>

\* log_err("Server process exited with status: ..") or
\* log_err("Server process wait failed: ..")
supervisor_exit_log(n) ==
    /\ supervisor[n].pc = "exit_log"
    /\ IF supervisor[n].res = "wait_err"
       THEN Log(n, "Event", "Server process wait failed")
       ELSE Log(n, "Event", "Server process exited with status")
    /\ supervisor' = [supervisor EXCEPT ![n].pc = "exit_update"]
    /\ UNCHANGED <<logVars, proxyVars, watchVars, replies, db, used, updates, sent, pc, todo, spec, ret, run, port,
                   server_states, stop_handles, process, tracing>>

ExitUpdateAlwaysRetain(states, id, res) == Retain(states, id)

ExitUpdateToStarting(states, id, res) ==
    IF res = "exit_ok"
    THEN Retain(states, id)
    ELSE SetStatus(states, id, "Starting", NoPort)

ExitUpdateAllRows(states, id, res) ==
    IF res = "exit_ok"
    THEN Retain(states, id)
    ELSE [i \in 1..Len(states) |-> [states[i] EXCEPT !.status = "Error", !.port = NoPort]]

ExitUpdateAlwaysError(states, id, res) == SetStatus(states, id, "Error", NoPort)

\* the process-exit branch: retain on success, Error otherwise
ExitUpdate(states, id, res) ==
    IF res = "exit_ok"
    THEN Retain(states, id)
    ELSE SetStatus(states, id, "Error", NoPort)

supervisor_exit_update_reselect(n) ==
    /\ supervisor[n].pc = "exit_update"
    /\ server_states' = ExitUpdate(server_states, IdOf(n), supervisor[n].res)
    /\ supervisor' = [supervisor EXCEPT ![n].pc = "select"]
    /\ UNCHANGED <<logVars, proxyVars, watchVars, replies, db, used, updates, sent, pc,
                   todo, spec, ret, run, port, stop_handles, logs, process, tracing>>

supervisor_exit_update(n) ==
    /\ supervisor[n].pc = "exit_update"
    /\ server_states' = ExitUpdate(server_states, IdOf(n), supervisor[n].res)
    /\ supervisor' = [supervisor EXCEPT ![n].pc = "done"]
    /\ UNCHANGED <<logVars, proxyVars, watchVars, replies, db, used, updates, sent, pc, todo, spec, ret, run, port,
                   stop_handles, logs, process, tracing>>

(***************************************************************************)
(* The orchestrator.                                                       *)
(***************************************************************************)
Runs == 1..Len(logs)

Next ==
    \/ add_server
    \/ remove_server
    \/ run_get_servers
    \/ run_startup_next
    \/ run_recv_Add
    \/ run_create_server
    \/ run_recv_Remove
    \/ run_delete_server
    \/ run_stop_server
    \/ start_setup_logs
    \/ start_log_starting
    \/ start_set_pending
    \/ start_authenticate
    \/ start_free_port
    \/ start_basic_server
    \/ start_log_started
    \/ start_set_running
    \/ start_supervise
    \/ \E n \in Runs : process_exit(n)
    \/ \E n \in Runs : pipe_output(n)
    \/ \E n \in Runs : supervisor_stop(n)
    \/ \E n \in Runs : supervisor_stop_log(n)
    \/ \E n \in Runs : supervisor_stop_retain(n)
    \/ \E n \in Runs : supervisor_wait(n)
    \/ \E n \in Runs : supervisor_exit_log(n)
    \/ \E n \in Runs : supervisor_exit_update(n)

vars == <<orchVars, logVars, proxyVars, watchVars>>

Spec == Init /\ [][Next]_vars

(***************************************************************************)
(* Fairness: the control loop and the supervisors are tokio tasks that are *)
(* scheduled whenever they can take a step; callers and child processes    *)
(* are under no obligation to act.                                         *)
(***************************************************************************)
ControlLoop ==
    \/ run_get_servers
    \/ run_startup_next
    \/ run_recv_Add
    \/ run_create_server
    \/ run_recv_Remove
    \/ run_delete_server
    \/ run_stop_server
    \/ start_setup_logs
    \/ start_log_starting
    \/ start_set_pending
    \/ start_authenticate
    \/ start_free_port
    \/ start_basic_server
    \/ start_log_started
    \/ start_set_running
    \/ start_supervise

Supervisors ==
    \E n \in Runs :
        \/ supervisor_stop(n)
        \/ supervisor_stop_log(n)
        \/ supervisor_stop_retain(n)
        \/ supervisor_wait(n)
        \/ supervisor_exit_log(n)
        \/ supervisor_exit_update(n)

FairSpec == Init /\ [][Next]_vars /\ WF_vars(ControlLoop) /\ WF_vars(Supervisors)

(***************************************************************************)
(* Properties of the orchestrator.                                         *)
(***************************************************************************)
RowsOf(id) == Rows(server_states, id)

RunsOf(id) == {n \in Runs : IdOf(n) = id}

Quiet(id) == \A n \in Runs : IdOf(n) = id => supervisor[n].pc \in {"none", "done"}

\* C1: the live state table never holds two rows with the same id.
C1_UniqueIds ==
    \A i, j \in 1..Len(server_states) :
        i # j => server_states[i].id # server_states[j].id

\* an Add is started while the supervisor of a removed instance is stopping
C1_Witness ==
    /\ Len(server_states) = 2
    /\ pc = "auth"
    /\ \E n \in Runs : supervisor[n].pc = "stop_retain"

\* C2 as claimed: every Running{port} row has a child process that is alive
\* at that moment and was spawned on that port.
C2_RunningIsAlive ==
    \A i \in 1..Len(server_states) :
        server_states[i].status = "Running" =>
            LET n == server_states[i].logs_id
            IN  /\ process[n].state = "alive"
                /\ process[n].port = server_states[i].port

\* C2 as amended: every Running{port} row belongs to a child process that
\* was spawned on exactly that port and that is alive, or has exited or been
\* killed while its supervisor has not yet made the row's terminal transition.
C2_RunningIsSupervised ==
    \A i \in 1..Len(server_states) :
        server_states[i].status = "Running" =>
            LET n == server_states[i].logs_id
            IN  /\ IdOf(n) = server_states[i].id
                /\ process[n].state # "none"
                /\ process[n].port = server_states[i].port
                /\ process[n].state = "alive" \/ supervisor[n].pc # "done"

\* a row still Running on the port of an exited child while another child
\* is alive on that same port
C2_Witness ==
    \E i, j \in 1..Len(server_states) :
        /\ i # j
        /\ server_states[i].status = "Running"
        /\ server_states[j].status = "Running"
        /\ server_states[i].port = server_states[j].port
        /\ process[server_states[i].logs_id].state = "exited"
        /\ process[server_states[j].logs_id].state = "alive"

\* C3: after a failure in the start phase the instance has exactly one row,
\* in status Error, its log holds an Event line for the failure, and no
\* child process exists for it.
C3_StartFailureGivesError ==
    (tracing[1] = "Failed to start server" /\ pc = ret) =>
        /\ Cardinality(RowsOf(spec)) = 1
        /\ \A i \in RowsOf(spec) : server_states[i].status = "Error"
        /\ \E k \in 1..Len(logs[run].vec) :
              /\ logs[run].vec[k].content[1] = "Event"
              /\ logs[run].vec[k].content[2] # "Starting server..."
        /\ process[run].state = "none"

\* the control loop finishes processing a Remove for an id whose row is in
\* status Error and for which no supervisor is left to act
RemoveOfErrorRowDone ==
    /\ pc = "stop"
    /\ pc' = "recv"
    /\ \E i \in RowsOf(spec) : server_states[i].status = "Error"
    /\ Quiet(spec)

\* C4: once a Remove for the id of an Error row has been processed, the row
\* is gone from the live state table.
C4_ErrorRowRemoved ==
    [][RemoveOfErrorRowDone => Rows(server_states', spec) = {}]_vars

\* C5: when a child exits on its own with a failure status, or wait() fails,
\* the row of its instance is in status Error from then on.
C5_FailedExitKeepsErrorRow ==
    \A n \in Runs :
        (supervisor[n].pc = "done" /\ supervisor[n].res \in {"exit_fail", "wait_err"})
            => /\ RowsOf(IdOf(n)) # {}
               /\ \A i \in RowsOf(IdOf(n)) : server_states[i].status = "Error"

\* a failed child whose row is Error, with no Remove issued for it
C5_Witness ==
    \E n \in Runs :
        /\ supervisor[n].pc = "done"
        /\ supervisor[n].res = "exit_fail"
        /\ \E i \in RowsOf(IdOf(n)) : server_states[i].status = "Error"
        /\ IdOf(n) \in db
        /\ <<IdOf(n), n>> \in stop_handles
        /\ sent = MaxRequests
        /\ updates = <<>>

\* C6: when a child exits on its own with status zero the row of its
\* instance is removed, whether or not a Remove was issued.
C6_CleanExitRemovesRow ==
    \A n \in Runs :
        (supervisor[n].pc = "done" /\ supervisor[n].res = "exit_ok")
            => RowsOf(IdOf(n)) = {}

\* a clean exit whose row is gone although its spec was never removed
C6_Witness ==
    \E n \in Runs :
        /\ supervisor[n].pc = "done"
        /\ supervisor[n].res = "exit_ok"
        /\ RowsOf(IdOf(n)) = {}
        /\ IdOf(n) \in db
        /\ <<IdOf(n), n>> \in stop_handles
        /\ \A k \in 1..Len(updates) : updates[k].id # IdOf(n)

Dequeued == sent - Len(updates)

\* the control loop takes a Remove for an id without a row from the queue
RemoveMissing ==
    /\ pc = "recv"
    /\ updates # <<>>
    /\ Head(updates).type = "Remove"
    /\ RowsOf(Head(updates).id) = {}
    /\ updates' = Tail(updates)

SecondStop ==
    /\ pc = "stop"
    /\ pc' = "recv"
    /\ \E n \in Runs : IdOf(n) = spec /\ supervisor[n].stop = "sent"

\* C12: a second stop of an instance that was already stopped leaves the
\* state table and the stop-handle table unchanged and reports success.
C12_SecondStopIsNoOp ==
    [][SecondStop =>
            /\ server_states' = server_states
            /\ stop_handles' = stop_handles
            /\ tracing'[1] # "Failed to stop server"]_vars

StartPcs == {"logs", "log_starting", "pending", "auth", "port", "spawn",
             "log_started", "running", "supervise"}

\* db::create_server returned Err for the Add being processed
CreateFailed ==
    /\ pc = "create"
    /\ pc' # pc
    /\ tracing'[1] = "Failed to create server spec in database"

\* C13: an Add is persisted before anything else: start_server runs for an
\* Add only with the spec in the store, and when create fails the loop goes
\* back to the queue with no log, row, child process, supervisor or stop
\* handle made for the spec.
C13_UnpersistedNeverRuns ==
    /\ [][CreateFailed =>
            /\ pc' = "recv"
            /\ server_states' = server_states
            /\ stop_handles' = stop_handles
            /\ process' = process
            /\ supervisor' = supervisor
            /\ logs' = logs]_vars
    /\ []((pc \in StartPcs /\ ret = "recv") => spec \in db)

\* a failed create next to a started instance: nothing exists for the new id
C13_Witness ==
    /\ tracing[1] = "Failed to create server spec in database"
    /\ pc = "recv"
    /\ tracing[2] \notin db
    /\ RowsOf(tracing[2]) = {}
    /\ Handle(tracing[2]) = {}
    /\ \A n \in Runs : IdOf(n) # tracing[2]
    /\ Len(server_states) = 1

\* C14: when create fails for an Add, the caller that issued the Add gets
\* a failure as the result of its request.
C14_CreateFailureReachesCaller ==
    [][CreateFailed => replies'[Dequeued] = "Err"]_vars

\* db::delete_server returned Err for the Remove being processed
DeleteFailed ==
    /\ pc = "delete"
    /\ pc' # pc
    /\ tracing'[1] = "Failed to delete server spec from database"

\* C15: when delete fails for a Remove of an instance in the table, the
\* in-memory removal still proceeds: the loop goes on to stop the instance.
C15_DeleteFailureStillStops ==
    [][DeleteFailed => pc' = "stop"]_vars

\* start_server returned Err for the Add being processed
StartFailed ==
    /\ pc \in {"auth", "port", "spawn"}
    /\ ret = "recv"
    /\ pc' # pc
    /\ tracing'[1] = "Failed to start server"

\* stop_server returned Err for the Remove being processed
StopFailed ==
    /\ pc = "stop"
    /\ pc' # pc
    /\ tracing'[1] = "Failed to stop server"

\* C16: no error of a request ends the control loop: after a failed create,
\* a failed start, a Remove of a missing id, a failed delete or a failed
\* stop the loop waits on the queue again, once in the loop it never exits,
\* and every request admitted to the queue is eventually taken from it.
C16_LoopSurvivesErrors ==
    /\ [][(CreateFailed \/ StartFailed \/ RemoveMissing \/ DeleteFailed \/ StopFailed)
            => pc' = "recv"]_vars
    /\ [][pc \notin {"load", "exited"} => pc' # "exited"]_vars
    /\ \A k \in 1..MaxRequests :
          (sent >= k /\ pc \notin {"load", "exited"}) ~> (Dequeued >= k)

\* a second Add is taken from the queue after the create of the first failed
C16_Witness ==
    /\ pc = "create"
    /\ Dequeued = 2
    /\ Cardinality(used) = 2
    /\ db = {}
    /\ logs = <<>>

\* the control loop is between taking a request and finishing it
InRequest ==
    \/ pc \in {"create", "delete", "stop"}
    \/ pc \in StartPcs /\ ret = "recv"

Enqueue ==
    /\ Len(updates') = Len(updates) + 1
    /\ SubSeq(updates', 1, Len(updates)) = updates

\* the loop, waiting, takes the oldest request and starts to process it
TakeOldest ==
    /\ pc = "recv"
    /\ updates # <<>>
    /\ updates' = Tail(updates)
    /\ IF pc' = "recv"
       THEN tracing' = <<"Server spec not found", Head(updates).id>>
       ELSE /\ spec' = Head(updates).id
            /\ pc' = IF Head(updates).type = "Add" THEN "create" ELSE "delete"

\* C17: requests leave the queue in the order they were admitted, only
\* while the loop waits, and the loop stays with the request it took until
\* it has finished with it.
C17_OneRequestAtATime ==
    [][/\ updates' = updates \/ Enqueue \/ TakeOldest
       /\ InRequest => Len(updates') >= Len(updates)
       /\ (InRequest /\ InRequest') => spec' = spec]_vars

\* an Add is in its start phase while a later request waits in the queue
C17_Witness ==
    /\ pc = "auth"
    /\ ret = "recv"
    /\ Len(updates) = 1
    /\ Dequeued = 1
    /\ updates[1].id # spec

\* C18 as claimed: every Starting or Running row has exactly one stop handle
\* registered under its id.
C18_RowsHaveHandles ==
    \A i \in 1..Len(server_states) :
        server_states[i].status \in {"Starting", "Running"} =>
            Cardinality(Handle(server_states[i].id)) = 1

\* C18 as amended: an id never has more than one stop handle; a Starting
\* row has none; a Running row has the handle of its own supervisor from
\* the return of start_server until a Remove for it is processed, after
\* which its supervisor has been signalled.
C18_HandlesFollowRunning ==
    /\ \A id \in ServerIds : Cardinality(Handle(id)) <= 1
    /\ \A i \in 1..Len(server_states) :
        LET id == server_states[i].id
            n == server_states[i].logs_id
        IN  /\ server_states[i].status = "Starting" => Handle(id) = {}
            /\ server_states[i].status = "Running" =>
                  \/ pc = "supervise" /\ run = n
                  \/ Handle(id) = {<<id, n>>} /\ supervisor[n].stop = "open"
                  \/ Handle(id) = {} /\ supervisor[n].stop \in {"sent", "dropped"}

\* a Running row whose handle was taken by a Remove, next to a Running row
\* that has its handle
C18_Witness ==
    \E i, j \in 1..Len(server_states) :
        /\ server_states[i].status = "Running"
        /\ Handle(server_states[i].id) = {}
        /\ supervisor[server_states[i].logs_id].stop = "sent"
        /\ server_states[j].status = "Running"
        /\ Handle(server_states[j].id) # {}

Active(n) == supervisor[n].pc \notin {"none", "done"}

\* C19: no id has two supervisor tasks, or two child processes, at a time.
C19_OneSupervisorPerId ==
    \A n, m \in Runs :
        (n # m /\ IdOf(n) = IdOf(m)) =>
            /\ ~ (Active(n) /\ Active(m))
            /\ ~ (process[n].state = "alive" /\ process[m].state = "alive")

\* an instance is started while the supervisor of a removed one still runs
C19_Witness ==
    /\ pc = "supervise"
    /\ \E n \in Runs : Active(n) /\ supervisor[n].stop = "sent" /\ n # run
    /\ \A n \in Runs : process[n].state = "alive"
    /\ Len(logs) = 2

\* AddInstance or RemoveInstance returns to its caller
Replied == Len(replies') = Len(replies) + 1

StopSignalled ==
    /\ pc = "stop"
    /\ pc' # pc
    /\ Handle(spec) # {}

\* C24: a Remove of a Running instance deletes the spec from the store
\* before the stop signal is sent, and the supervisor that was sent the
\* signal ends with the child killed and the row of the instance removed.
C24_RemoveOfRunningRemovesRow ==
    /\ [][StopSignalled => spec \notin db]_vars
    /\ [](\A n \in Runs :
            (supervisor[n].stop = "sent" /\ supervisor[n].pc = "done") =>
                /\ RowsOf(IdOf(n)) = {}
                /\ process[n].state # "alive" \/ supervisor[n].res = "kill_err")

HasEvent(n, text) ==
    \E k \in 1..Len(logs[n].vec) : logs[n].vec[k].content = <<"Event", text>>

\* C25: when the supervisor was signalled to stop and kill() failed, the
\* log of the instance holds an Event line for the failure and the row of
\* the instance is removed all the same.
C25_KillFailureStillRemovesRow ==
    \A n \in Runs :
        supervisor[n].res = "kill_err" =>
            /\ supervisor[n].pc \in {"stop_retain", "done"}
                  => HasEvent(n, "Failed to stop server")
            /\ supervisor[n].pc = "done" => RowsOf(IdOf(n)) = {}

\* a child that survived a failed kill, its failure logged and its row gone
C25_Witness ==
    \E n \in Runs :
        /\ supervisor[n].res = "kill_err"
        /\ supervisor[n].pc = "done"
        /\ process[n].state = "alive"
        /\ HasEvent(n, "Failed to stop server")
        /\ ~ HasEvent(n, "Server stopped.")
        /\ RowsOf(IdOf(n)) = {}

\* the status of the row of an id in a table: <<status, port>>, or absent
StatusOf(states, id) ==
    IF Find(states, id) = 0 THEN <<"absent", NoPort>>
    ELSE <<states[Find(states, id)].status, states[Find(states, id)].port>>

\* C26: the row of an id changes only from absent to Starting (at the first
\* and only start of the id), from Starting to Running or Error, from
\* Running to Error, and from Starting or Running to absent; a Running row
\* keeps its port, an Error row stays as it is, a removed row stays removed.
C26_StatusTransitions ==
    [][\A id \in ServerIds :
        LET old == StatusOf(server_states, id)
            new == StatusOf(server_states', id)
        IN  \/ new = old
            \/ /\ old[1] = "absent"
               /\ new[1] = "Starting"
               /\ RunsOf(id) = {run}
               /\ supervisor[run].pc = "none"
            \/ old[1] = "Starting" /\ new[1] \in {"Running", "Error", "absent"}
            \/ old[1] = "Running" /\ new[1] \in {"Error", "absent"}]_vars

\* one instance has ended in Error and another one was removed
C26_Witness ==
    \E n, m \in Runs :
        /\ StatusOf(server_states, IdOf(n))[1] = "Error"
        /\ supervisor[n].pc = "done"
        /\ StatusOf(server_states, IdOf(m))[1] = "absent"
        /\ supervisor[m].pc = "done"

StopBranch == {"kill_ok", "kill_err"}
ExitBranch == {"exit_ok", "exit_fail", "wait_err"}

\* C27: of the two branches of a supervisor's select! exactly one runs, and
\* it runs once: the outcome, once set, stays, the steps of the stop branch
\* are taken only with a kill outcome and those of the exit branch only with
\* an exit outcome, a supervisor that is done stays done, and after that
\* the row of its instance no longer changes.
C27_OneTerminalTransition ==
    /\ [](\A n \in Runs :
            /\ supervisor[n].pc \in {"stop_log", "stop_retain"}
                  => supervisor[n].res \in StopBranch
            /\ supervisor[n].pc \in {"exit_log", "exit_update"}
                  => supervisor[n].res \in ExitBranch
            /\ supervisor[n].pc = "done"
                  => supervisor[n].res \in StopBranch \cup ExitBranch
            /\ supervisor[n].pc \in {"none", "select"} => supervisor[n].res = "none")
    /\ [][\A n \in Runs :
            /\ supervisor[n].res # "none" => supervisor'[n].res = supervisor[n].res
            /\ supervisor[n].pc = "done" =>
                  /\ supervisor'[n].pc = "done"
                  /\ StatusOf(server_states', IdOf(n)) = StatusOf(server_states, IdOf(n))]_vars

\* a supervisor that was sent the stop signal but took the exit branch: its
\* row is in Error and was not removed
C27_Witness ==
    \E n \in Runs :
        /\ supervisor[n].stop = "sent"
        /\ supervisor[n].pc = "done"
        /\ supervisor[n].res = "exit_fail"
        /\ StatusOf(server_states, IdOf(n))[1] = "Error"

\* start_server call n is over: its supervisor has finished, or the call
\* returned before it spawned one
Ended(n) ==
    \/ supervisor[n].pc = "done"
    \/ supervisor[n].pc = "none" /\ ~ (run = n /\ pc \in StartPcs)

\* the Event lines of log n that report an ending
EndEvents(n) ==
    {k \in 1..Len(logs[n].vec) :
        /\ logs[n].vec[k].content[1] = "Event"
        /\ logs[n].vec[k].content[2]
              \notin {"Starting server...", "Server started successfully."}}

\* C28: whichever way an instance ended, by a stop, by the exit of its
\* child, by a failed wait or by a failure in its start phase, its log holds
\* an Event line that reports the ending.
C28_EveryEndingIsLogged ==
    \A n \in Runs : Ended(n) => EndEvents(n) # {}

\* the control loop takes a step of the processing of a Remove
RemoveStep ==
    \/ /\ pc = "recv"
       /\ updates # <<>>
       /\ Head(updates).type = "Remove"
       /\ updates' = Tail(updates)
    \/ pc \in {"delete", "stop"} /\ pc' # pc

\* supervisor n takes the step that ends it
Finishes(n) == supervisor[n].pc \in {"stop_retain", "exit_update"} /\ supervisor'[n].pc = "done"

\* C29: no step of the processing of a Remove changes the live table; a row
\* leaves the table only by the last step of a supervisor of its id, and in
\* the stop branch only after that supervisor was signalled.
C29_OnlySupervisorRemovesRow ==
    /\ [][RemoveStep => server_states' = server_states]_vars
    /\ [][\A id \in ServerIds :
            (Rows(server_states, id) # {} /\ Rows(server_states', id) = {}) =>
                \E n \in RunsOf(id) :
                    /\ Finishes(n)
                    /\ supervisor[n].pc = "stop_retain"
                          => supervisor[n].stop \in {"sent", "dropped"}]_vars

\* a Remove was processed to its end and the row of its instance is still
\* in the table, its supervisor signalled but not yet run
C29_Witness ==
    /\ pc = "recv"
    /\ tracing[1] = "Removing server spec"
    /\ StatusOf(server_states, tracing[2])[1] = "Running"
    /\ Handle(tracing[2]) = {}
    /\ \E n \in RunsOf(tracing[2]) :
          supervisor[n].pc = "select" /\ supervisor[n].stop = "sent"

\* everything of the instances other than id and its start_server call n is
\* left as it is
OthersUnchanged(id, n) ==
    /\ Retain(server_states', id) = Retain(server_states, id)
    /\ \A m \in Runs \ {n} :
          /\ logs'[m] = logs[m]
          /\ process'[m] = process[m]
          /\ supervisor'[m] = supervisor[m]

\* start_server returns Err
StartFails ==
    /\ pc \in {"auth", "port", "spawn"}
    /\ pc' \notin StartPcs

\* C30: a step of the supervisor of one instance (kill, log, terminal
\* transition) and the failure of one start change only the row, log and
\* process of that instance; the rows, logs, processes and supervisors of
\* all other instances are left unchanged.
C30_FailuresAreLocal ==
    /\ [][\A n \in Runs :
            (supervisor[n].pc # "none" /\ supervisor'[n].pc # supervisor[n].pc)
                => OthersUnchanged(IdOf(n), n)]_vars
    /\ [][StartFails => OthersUnchanged(spec, run)]_vars

\* one instance crashed into Error next to a Running one whose child lives
C30_Witness ==
    \E n, m \in Runs :
        /\ supervisor[n].pc = "done"
        /\ supervisor[n].res = "exit_fail"
        /\ StatusOf(server_states, IdOf(n))[1] = "Error"
        /\ StatusOf(server_states, IdOf(m))[1] = "Running"
        /\ process[m].state = "alive"
        /\ supervisor[m].pc = "select"

\* a request for id is queued or being processed by the control loop, the
\* startup has not yet come to id, a supervisor of id is in the middle of
\* its stop or exit branch, or the store has just failed on id
InProgress(id) ==
    \/ pc \in {"load", "exited"}
    \/ /\ tracing[2] = id
       /\ tracing[1] \in {"Failed to create server spec in database",
                          "Failed to delete server spec from database"}
    \/ \E k \in 1..Len(updates) : updates[k].id = id
    \/ \E k \in 1..Len(todo) : todo[k] = id
    \/ pc # "recv" /\ spec = id
    \/ \E n \in RunsOf(id) :
          Active(n) /\ (supervisor[n].pc # "select" \/ supervisor[n].stop # "open")

\* C32, for the rows of instances whose supervisor has ended: while the
\* control loop runs and nothing is in progress for an id, a row for the id
\* in the live table means that the id is persisted in the spec store.
C32_StoreMatchesTable ==
    \A id \in ServerIds :
        (/\ ~ InProgress(id)
         /\ \E n \in RunsOf(id) : supervisor[n].pc = "done")
            => (RowsOf(id) # {} => id \in db)

\* C33: once the supervisor of an instance has ended, having removed the
\* instance's row or set it to Error, the stop-handle table holds no handle
\* for the instance's id.
C33_NoHandleWithoutSupervisor ==
    \A n \in Runs :
        supervisor[n].pc = "done" => Handle(IdOf(n)) = {}

\* the Event lines that announce a status
EventsOf(status) ==
    CASE status = "Starting" -> {"Starting server..."}
      [] status = "Running" -> {"Server started successfully."}
      [] status = "Error" -> {"Server process exited with status",
                              "Server process wait failed"}
      [] status = "absent" -> {"Server stopped.", "Failed to stop server",
                               "Server process exited with status"}

\* C35: at every step that publishes a new status of an instance (the
\* Starting row appears, the row becomes Running or Error, the row is
\* removed) the Event line of that status is already in the instance's log,
\* and it is still there in every state in which the status is visible.
C35_EventBeforeStatus ==
    /\ [][\A n \in Runs :
            StatusOf(server_states', IdOf(n))[1] # StatusOf(server_states, IdOf(n))[1]
                => \E text \in EventsOf(StatusOf(server_states', IdOf(n))[1]) :
                      HasEvent(n, text)]_vars
    /\ [](\A n \in Runs :
            RowsOf(IdOf(n)) # {} =>
                \E text \in EventsOf(StatusOf(server_states, IdOf(n))[1]) :
                    HasEvent(n, text))

\* one instance is visible as Running with its Event in its log, another has
\* been stopped and removed, its log holding the Event of the stop
C35_Witness ==
    \E n, m \in Runs :
        /\ StatusOf(server_states, IdOf(n))[1] = "Running"
        /\ HasEvent(n, "Server started successfully.")
        /\ supervisor[m].pc = "done"
        /\ RowsOf(IdOf(m)) = {}
        /\ HasEvent(m, "Server stopped.")

\* ServerManagerApi::get_logs: logs.get(logs_id).cloned()
get_logs(registry, logs_id) ==
    IF logs_id \in DOMAIN registry THEN <<"Some", registry[logs_id]>> ELSE <<"None">>

\* C36: get_logs of the logs id of every row of the live table returns a
\* log sink, and a logs id that resolves keeps resolving to the same sink,
\* which only grows, also after the row of its instance has been removed.
C36_LogsStayRegistered ==
    /\ [](\A i \in 1..Len(server_states) :
            get_logs(logs, server_states[i].logs_id)[1] = "Some")
    /\ [][\A n \in DOMAIN logs :
            /\ get_logs(logs', n)[1] = "Some"
            /\ Len(get_logs(logs', n)[2].vec) >= Len(logs[n].vec)
            /\ SubSeq(get_logs(logs', n)[2].vec, 1, Len(logs[n].vec)) = logs[n].vec]_vars

\* the log of an instance whose row has been removed still resolves and
\* holds the Event of its stop, next to the row of a second instance
C36_Witness ==
    \E n \in Runs :
        /\ supervisor[n].pc = "done"
        /\ RowsOf(IdOf(n)) = {}
        /\ get_logs(logs, n)[1] = "Some"
        /\ \E k \in 1..Len(get_logs(logs, n)[2].vec) :
              get_logs(logs, n)[2].vec[k].content = <<"Event", "Server stopped.">>
        /\ Len(server_states) = 1
        /\ server_states[1].logs_id # n
        /\ get_logs(logs, server_states[1].logs_id)[1] = "Some"

(***************************************************************************)
(* Shutdown: every ServerManagerApi has been dropped, recv() returns None  *)
(* once the queue is empty, run() breaks out of its loop and the           *)
(* ServerManager with its stop_handles is dropped.                         *)
(***************************************************************************)
DropHandlesForgotten(sup, handles) == sup

\* drop of HashMap<ServerId, oneshot::Sender<()>>: the receiver of every
\* sender still in the table completes with RecvError
DropHandles(sup, handles) ==
    [m \in 1..Len(sup) |->
        IF (\E h \in handles : h[2] = m) /\ sup[m].stop = "open"
        THEN [sup[m] EXCEPT !.stop = "dropped"]
        ELSE sup[m]]

\* the else arm of `if let Some(update) = updates_rx.recv().await`
run_channel_closed ==
    /\ pc = "recv"
    /\ updates = <<>>
    /\ Trace("Server spec updates channel closed", NoId)
    /\ pc' = "exited"
    /\ supervisor' = DropHandles(supervisor, stop_handles)
    /\ stop_handles' = {}
    /\ UNCHANGED <<logVars, proxyVars, watchVars, replies, db, used, updates, sent, todo,
                   spec, ret, run, port, server_states, logs, process>>

NextShutdown == Next \/ run_channel_closed

\* the control loop and the supervisors are tokio tasks, as in FairSpec;
\* nothing obliges the holders of the api to drop it
SpecShutdown ==
    Init /\ [][NextShutdown]_vars /\ WF_vars(ControlLoop) /\ WF_vars(Supervisors)

Closed == pc = "exited" /\ tracing[1] = "Server spec updates channel closed"

\* supervisor n enters its stop branch: kill() has returned
Kills(n) == supervisor[n].pc = "select" /\ supervisor'[n].pc = "stop_log"

\* C34 as stated: every supervisor that takes its stop branch after the
\* control loop has terminated on the closed channel leaves its child killed.
C34_ShutdownKillsEveryChild ==
    [][\A n \in Runs : (Closed /\ Kills(n)) => process'[n].state # "alive"]_vars

\* C34, amended: once the control loop has terminated on the closed channel
\* the stop-handle table is empty and no supervisor is left waiting with an
\* open stop channel; every supervisor ends; one that ends by its stop
\* branch has removed its row, and its child has been killed unless kill()
\* failed; one whose child had exited by itself may end by its exit branch.
C34_ShutdownStopsSupervisors ==
    /\ [](Closed => stop_handles = {})
    /\ [](Closed => \A n \in Runs :
              supervisor[n].pc = "select" => supervisor[n].stop # "open")
    /\ Closed ~> (\A n \in Runs : ~ Active(n))
    /\ [](Closed => \A n \in Runs :
              supervisor[n].pc = "done" =>
                  /\ supervisor[n].res \in StopBranch => RowsOf(IdOf(n)) = {}
                  /\ supervisor[n].res \in ExitBranch => process[n].state = "exited"
                  /\ process[n].state = "alive" => supervisor[n].res = "kill_err")

\* two instances were Running when the channel closed; both supervisors
\* took their stop branch, both children are killed and the table is empty
C34_Witness ==
    /\ Closed
    /\ Len(supervisor) = 2
    /\ \A n \in Runs :
          /\ supervisor[n].pc = "done"
          /\ supervisor[n].stop = "dropped"
          /\ supervisor[n].res = "kill_ok"
          /\ process[n].state = "killed"
    /\ server_states = <<>>

(***************************************************************************)
(* Startup with a full store: every id of the pool is stored when run()    *)
(* begins, and the callers issue Removes.                                  *)
(***************************************************************************)
InitStartup ==
    /\ sink = IncrementalVec_new(Capacity)
    /\ subs = [s \in Subscribers |-> NoSubscriber]
    /\ request = NoRequest
    /\ target = NoTarget
    /\ version = 0
    /\ viewers = [v \in Viewers |-> NoViewer]
    /\ db = ServerIds
    /\ used = db
    /\ updates = <<>>
    /\ sent = 0
    /\ pc = "load"
    /\ todo = <<>>
    /\ spec = NoId
    /\ ret = "startup"
    /\ run = 0
    /\ port = NoPort
    /\ server_states = <<>>
    /\ stop_handles = {}
    /\ logs = <<>>
    /\ process = <<>>
    /\ supervisor = <<>>
    /\ tracing = <<"", NoId>>
    /\ replies = <<>>

NextStartup ==
    \/ remove_server
    \/ run_get_servers
    \/ run_startup_next
    \/ run_recv_Remove
    \/ run_delete_server
    \/ run_stop_server
    \/ start_setup_logs
    \/ start_log_starting
    \/ start_set_pending
    \/ start_authenticate
    \/ start_free_port
    \/ start_basic_server
    \/ start_log_started
    \/ start_set_running
    \/ start_supervise
    \/ \E n \in Runs : process_exit(n)
    \/ \E n \in Runs : pipe_output(n)
    \/ \E n \in Runs : supervisor_stop(n)
    \/ \E n \in Runs : supervisor_stop_log(n)
    \/ \E n \in Runs : supervisor_stop_retain(n)
    \/ \E n \in Runs : supervisor_wait(n)
    \/ \E n \in Runs : supervisor_exit_log(n)
    \/ \E n \in Runs : supervisor_exit_update(n)

SpecStartup == InitStartup /\ [][NextStartup]_vars

\* the startup loop is over and the control loop is in its request loop
StartupDone ==
    /\ pc \notin {"load", "startup", "exited"}
    /\ ~ (pc \in StartPcs /\ ret = "startup")

\* start_server returned Err for a spec of the startup loop
StartupStartFailed ==
    /\ pc \in {"auth", "port", "spawn"}
    /\ ret = "startup"
    /\ pc' \notin StartPcs
    /\ tracing'[1] = "Failed to start server"

\* C22: on startup start_server is called once for every stored spec and a
\* supervisor is spawned for each one whose start succeeds; a start that
\* fails only sends the loop on to the next stored spec, with the specs
\* still to start and the queue untouched.
C22_StartupIsBestEffort ==
    /\ [](StartupDone => \A id \in ServerIds :
            /\ Cardinality(RunsOf(id)) = 1
            /\ \A n \in RunsOf(id) :
                  process[n].state # "none" => supervisor[n].pc # "none")
    /\ [][StartupStartFailed =>
            /\ pc' = "startup"
            /\ todo' = todo
            /\ updates' = updates]_vars

\* the start of the first stored spec failed, the second one runs, and a
\* Remove was taken from the queue afterwards
C22_Witness ==
    /\ Len(logs) = 2
    /\ supervisor[1].pc = "none"
    /\ process[1].state = "none"
    /\ supervisor[2].pc = "select"
    /\ process[2].state = "alive"
    /\ pc = "delete"
    /\ Dequeued = 1

(***************************************************************************)
(* The log sink on its own: pushes (log_info / log_err / log_output take   *)
(* the Mutex and call IncrementalVec::push) against the stream tasks of    *)
(* api::get_logs.                                                          *)
(***************************************************************************)
MaxLines == Capacity + 2

LineKinds == {"Event", "ServerProcess"}

push_when_consumed ==
    /\ Len(sink.vec) < MaxLines
    /\ \A s \in Subscribers :
          (subs[s].pc \in {"history", "live"}) => sink.tail - subs[s].next < sink.cap
    /\ \E kind \in LineKinds :
        sink' = IncrementalVec_push(sink, LogLine(Len(sink.vec) + 1, kind, "line"))
    /\ UNCHANGED <<orchVars, subs, proxyVars, watchVars>>

\* logs.lock().unwrap().push(LogLine { timestamp: now(), content })
push ==
    /\ Len(sink.vec) < MaxLines
    /\ \E kind \in LineKinds :
        sink' = IncrementalVec_push(sink, LogLine(Len(sink.vec) + 1, kind, "line"))
    /\ UNCHANGED <<orchVars, subs, proxyVars, watchVars>>

\* the receiver's stream is over: rx is dropped
EndStream(s) ==
    /\ subs' = [subs EXCEPT ![s].pc = "ended"]
    /\ sink' = [sink EXCEPT !.rx_cnt = @ - 1]

SubscribeLate(self) == [history |-> self.vec, next |-> self.tail + 1]

\* IncrementalVec::get and rx.resubscribe(), under one lock of the Mutex:
\* the history is the whole vec, the receiver starts at the channel's tail
Subscribe(self) == [history |-> self.vec, next |-> self.tail]

get_logs_subscribe(s) ==
    /\ subs[s].pc = "idle"
    /\ subs' = [subs EXCEPT ![s].pc = "history",
                            ![s].history = Subscribe(sink).history,
                            ![s].next = Subscribe(sink).next]
    /\ sink' = [sink EXCEPT !.rx_cnt = @ + 1]
    /\ UNCHANGED <<orchVars, proxyVars, watchVars>>

\* for line in history { tx.unbounded_send(line) }, one line per step
get_logs_history(s) ==
    /\ subs[s].pc = "history"
    /\ LET k == Len(subs[s].delivered)
       IN  IF k = Len(subs[s].history)
           THEN /\ subs' = [subs EXCEPT ![s].pc = "live"]
                /\ UNCHANGED sink
           ELSE IF ~ subs[s].client
                THEN EndStream(s)
                ELSE /\ subs' = [subs EXCEPT ![s].delivered = Append(@, subs[s].history[k + 1])]
                     /\ UNCHANGED sink
    /\ UNCHANGED <<orchVars, proxyVars, watchVars>>

\* the channel no longer holds the value at the receiver's position
Lagged(self, next) == next < self.tail - Len(self.buf)

RecvSkipLagged(self, next) == IF next < self.tail THEN "value" ELSE "empty"

\* the value at position next of the channel
Slot(self, next) == self.buf[next - (self.tail - Len(self.buf)) + 1]

\* broadcast::Receiver::recv: Err(Lagged) once the value at the receiver's
\* position was overwritten, else that value, else wait
Recv(self, next) ==
    IF Lagged(self, next) THEN "lagged"
    ELSE IF next < self.tail THEN "value"
    ELSE "empty"

\* the position recv reads: a lagging receiver is moved to the oldest value
Position(self, next) == IF Lagged(self, next) THEN self.tail - Len(self.buf) ELSE next

\* while let Ok(line) = rx.recv().await { tx.unbounded_send(line) }
get_logs_recv(s) ==
    /\ subs[s].pc = "live"
    /\ Recv(sink, subs[s].next) # "empty"
    /\ IF Recv(sink, subs[s].next) = "lagged" \/ ~ subs[s].client
       THEN EndStream(s)
       ELSE /\ subs' = [subs EXCEPT
                    ![s].delivered = Append(@, Slot(sink, Position(sink, subs[s].next))),
                    ![s].next = Position(sink, subs[s].next) + 1]
            /\ UNCHANGED sink
    /\ UNCHANGED <<orchVars, proxyVars, watchVars>>

\* the client of the stream goes away; later unbounded_send calls fail
client_disconnect(s) ==
    /\ subs[s].pc \in {"history", "live"}
    /\ subs[s].client
    /\ subs' = [subs EXCEPT ![s].client = FALSE]
    /\ UNCHANGED <<orchVars, sink, proxyVars, watchVars>>

NextLog ==
    \/ push
    \/ \E s \in Subscribers : get_logs_subscribe(s)
    \/ \E s \in Subscribers : get_logs_history(s)
    \/ \E s \in Subscribers : get_logs_recv(s)
    \/ \E s \in Subscribers : client_disconnect(s)

SpecLog == Init /\ [][NextLog]_vars

(***************************************************************************)
(* Properties of the log sink.                                             *)
(***************************************************************************)
Max(a, b) == IF a >= b THEN a ELSE b

\* the values the channel still holds for a receiver at position next
Buffered(self, next) ==
    LET from == Max(next, self.tail - Len(self.buf))
    IN  [i \in 1..(self.tail - from) |-> Slot(self, from + i - 1)]

\* the lines a stream task has not delivered yet but still holds or can receive
Remaining(s) ==
    SubSeq(subs[s].history, Len(subs[s].delivered) + 1, Len(subs[s].history))
        \o Buffered(sink, subs[s].next)

IsPrefix(p, q) == Len(p) <= Len(q) /\ p = SubSeq(q, 1, Len(p))

\* C8 as claimed: a subscriber gets the lines pushed before it subscribed and
\* then every later line exactly once, in append order: what it was sent
\* plus what it is still to be sent is the whole log, and its stream goes on
\* while its client listens.
C8_EveryLineDelivered ==
    \A s \in Subscribers :
        (subs[s].pc # "idle" /\ subs[s].client) =>
            /\ subs[s].pc # "ended"
            /\ subs[s].delivered \o Remaining(s) = sink.vec

\* C8 as amended: the lines sent to a subscriber are always the history
\* followed by the later lines in append order without gap or duplicate;
\* none is lost as long as the subscriber is at most the channel's capacity
\* behind, and a stream ends under a listening client only after the
\* subscriber fell further behind than that.
C8_GapFreeUntilLagged ==
    \A s \in Subscribers :
        subs[s].pc # "idle" =>
            /\ IsPrefix(subs[s].history, sink.vec)
            /\ IsPrefix(subs[s].delivered, sink.vec)
            /\ (subs[s].pc \in {"history", "live"} /\ ~ Lagged(sink, subs[s].next))
                  => subs[s].delivered \o Remaining(s) = sink.vec
            /\ (subs[s].pc = "ended" /\ subs[s].client)
                  => Len(sink.vec) - Len(subs[s].delivered) > sink.cap

\* a subscriber that joined after one line and got it and a later line
C8_Witness ==
    \E s \in Subscribers :
        /\ subs[s].pc = "live"
        /\ Len(subs[s].history) = 1
        /\ Len(subs[s].delivered) = 3
        /\ subs[s].delivered = sink.vec

\* C37: what a subscriber has been sent is at every moment a prefix of the
\* log, each delivery being the line that follows the last one delivered;
\* a stream task that finds lines lost to it (it fell more than the
\* channel's capacity behind) delivers nothing more and ends its stream,
\* and an ended stream delivers nothing.
C37_NoSilentSkip ==
    /\ [](\A s \in Subscribers : IsPrefix(subs[s].delivered, sink.vec))
    /\ [][\A s \in Subscribers :
            /\ \/ subs'[s].delivered = subs[s].delivered
               \/ subs'[s].delivered =
                      Append(subs[s].delivered, sink.vec[Len(subs[s].delivered) + 1])
            /\ (subs[s].pc = "live" /\ Lagged(sink, subs[s].next) /\ subs'[s] # subs[s])
                  => /\ subs'[s].delivered = subs[s].delivered
                     /\ subs'[s].pc = "ended" \/ subs'[s].client # subs[s].client
            /\ subs[s].pc = "ended" => subs'[s] = subs[s]]_vars

\* a listening subscriber got the one line of its history, fell three lines
\* behind a channel of capacity two, and its stream was ended
C37_Witness ==
    \E s \in Subscribers :
        /\ subs[s].pc = "ended"
        /\ subs[s].client
        /\ Len(subs[s].delivered) = 1
        /\ Len(sink.vec) = Len(subs[s].delivered) + Capacity + 1

\* C9: the retained history never holds more lines than the capacity.
C9_HistoryBounded == Len(sink.vec) <= sink.cap

(***************************************************************************)
(* The reverse proxy: ServerResolver::resolve for the three proxy routes.  *)
(***************************************************************************)
NotFound == <<"https://postman-echo.com/get/status/404">>

Loopback == <<"http://127.0.0.1:">>

Digit(d) == <<"0", "1", "2", "3", "4", "5", "6", "7", "8", "9">>[d + 1]

RECURSIVE Decimal(_)
\* format!("{}", port)
Decimal(n) == IF n < 10 THEN <<Digit(n)>> ELSE Decimal(n \div 10) \o <<Digit(n % 10)>>

\* states.iter().find(|s| s.spec.id.short() == id), 0 when absent
FindShort(states, id) ==
    IF \E i \in 1..Len(states) : short(states[i].id) = id
    THEN CHOOSE i \in 1..Len(states) :
            short(states[i].id) = id /\ \A j \in 1..(i - 1) : short(states[j].id) # id
    ELSE 0

resolve_any_status(self, id, rest, states) ==
    IF Len(id) < MinIdLen THEN NotFound
    ELSE IF FindShort(states, id) = 0 THEN NotFound
    ELSE Loopback \o Decimal(states[FindShort(states, id)].port)
            \o (IF self.with_rest THEN <<"/">> \o rest ELSE <<>>)
            \o (IF self.append_slash THEN <<"/">> ELSE <<>>)

resolve_drop_slash(self, id, rest, states) ==
    IF Len(id) < MinIdLen THEN NotFound
    ELSE IF FindShort(states, id) = 0 THEN NotFound
    ELSE IF states[FindShort(states, id)].status # "Running" THEN NotFound
    ELSE Loopback \o Decimal(states[FindShort(states, id)].port)
            \o (IF self.with_rest THEN <<"/">> \o rest ELSE <<>>)

resolve_cached(self, id, rest, states) ==
    IF request.route # "none" /\ request.id = id THEN target
    ELSE IF Len(id) < MinIdLen THEN NotFound
    ELSE IF FindShort(states, id) = 0 THEN NotFound
    ELSE IF states[FindShort(states, id)].status # "Running" THEN NotFound
    ELSE Loopback \o Decimal(states[FindShort(states, id)].port)
            \o (IF self.with_rest THEN <<"/">> \o rest ELSE <<>>)
            \o (IF self.append_slash THEN <<"/">> ELSE <<>>)

\* ServerResolver::resolve
resolve(self, id, rest, states) ==
    IF Len(id) < MinIdLen THEN NotFound
    ELSE IF FindShort(states, id) = 0 THEN NotFound
    ELSE IF states[FindShort(states, id)].status # "Running" THEN NotFound
    ELSE Loopback \o Decimal(states[FindShort(states, id)].port)
            \o (IF self.with_rest THEN <<"/">> \o rest ELSE <<>>)
            \o (IF self.append_slash THEN <<"/">> ELSE <<>>)

\* the three proxy_route registrations of serve()
Routes == {"/s/{id}", "/s/{id}/", "/s/{id}/{*rest}"}

Resolver(route) ==
    [with_rest |-> route = "/s/{id}/{*rest}", append_slash |-> route = "/s/{id}/"]

RequestIds == {SubSeq(Uuid(i), 1, k) : i \in 1..(MaxIds + 1), k \in 0..Len(Uuid(1))}

Rests == {<<"d">>, <<"d", "/", "f">>}

\* an inbound request on one of the proxy routes is resolved
proxy_route(route) ==
    /\ \E id \in RequestIds :
        \E rest \in (IF route = "/s/{id}/{*rest}" THEN Rests ELSE {<<>>}) :
            /\ request' = [route |-> route, id |-> id, rest |-> rest]
            /\ target' = resolve(Resolver(route), id, rest, server_states)
    /\ UNCHANGED <<orchVars, logVars, watchVars>>

StatusRows == [status : {"Starting", "Error"}, port : {NoPort}]
                 \cup [status : {"Running"}, port : Ports]

\* the live state tables of at most MaxRows rows: one row per id, a port on
\* Running rows only
Tables ==
    UNION {
        {[i \in 1..k |-> ServerState(ids[i], st[i].status, st[i].port, i)] :
            ids \in {q \in [1..k -> ServerIds] : \A i, j \in 1..k : i # j => q[i] # q[j]},
            st \in [1..k -> StatusRows]} :
        k \in 0..MaxRows}

InitProxy ==
    /\ sink = IncrementalVec_new(Capacity)
    /\ subs = [s \in Subscribers |-> NoSubscriber]
    /\ request = NoRequest
    /\ target = NoTarget
    /\ server_states \in Tables
    /\ db = {server_states[i].id : i \in 1..Len(server_states)}
    /\ used = db
    /\ updates = <<>>
    /\ sent = 0
    /\ pc = "recv"
    /\ todo = <<>>
    /\ spec = NoId
    /\ ret = "startup"
    /\ run = 0
    /\ port = NoPort
    /\ stop_handles = {}
    /\ logs = <<>>
    /\ process = <<>>
    /\ supervisor = <<>>
    /\ tracing = <<"", NoId>>
    /\ replies = <<>>
    /\ version = 0
    /\ viewers = [v \in Viewers |-> NoViewer]

NextProxy == \E route \in Routes : proxy_route(route)

SpecProxy == InitProxy /\ [][NextProxy]_vars

\* the rows whose id, up to its first '-', is the requested id
Matching(id) ==
    {i \in 1..Len(server_states) :
        /\ Len(server_states[i].id) > Len(id)
        /\ SubSeq(server_states[i].id, 1, Len(id)) = id
        /\ server_states[i].id[Len(id) + 1] = "-"
        /\ \A k \in 1..Len(id) : id[k] # "-"}

\* C10: a request whose id is shorter than the minimum length, matches no
\* row, or matches a row in status Starting or Error resolves to not-found.
C10_NotFound ==
    (/\ request.route # "none"
     /\ \/ Len(request.id) < MinIdLen
        \/ Matching(request.id) = {}
        \/ \E i \in Matching(request.id) : server_states[i].status \in {"Starting", "Error"})
        => target = NotFound

\* a request for the short id of a Starting row, next to a Running row, was
\* answered with not-found
C10_Witness ==
    /\ request.route = "/s/{id}/{*rest}"
    /\ \E i \in Matching(request.id) : server_states[i].status = "Starting"
    /\ \E j \in 1..Len(server_states) : server_states[j].status = "Running"
    /\ target = NotFound

\* the URL the claim gives for a request on a route to a row's port
Expected(route, p, rest) ==
    Loopback \o Decimal(p) \o
        (CASE route = "/s/{id}" -> <<>>
           [] route = "/s/{id}/" -> <<"/">>
           [] route = "/s/{id}/{*rest}" -> <<"/">> \o rest)

\* C11: a request whose id matches a Running{port} row resolves to the
\* loopback URL on that row's port: the bare id gives http://127.0.0.1:<port>,
\* the id with a trailing slash http://127.0.0.1:<port>/, the id with a rest
\* path R http://127.0.0.1:<port>/R, and the three are pairwise different.
C11_RunningResolvesToPort ==
    request.route # "none" =>
        \A i \in Matching(request.id) :
            server_states[i].status = "Running" =>
                /\ target = Expected(request.route, server_states[i].port, request.rest)
                /\ \A other \in Routes \ {request.route} : \A rest \in Rests :
                      target # Expected(other, server_states[i].port,
                                        IF other = "/s/{id}/{*rest}" THEN rest ELSE <<>>)

\* the trailing-slash route was resolved for the second of two Running rows
C11_Witness ==
    /\ request.route = "/s/{id}/"
    /\ Len(server_states) = 2
    /\ server_states[1].status = "Running"
    /\ server_states[2].status = "Running"
    /\ server_states[1].port # server_states[2].port
    /\ Matching(request.id) = {2}
    /\ target = Loopback \o Decimal(server_states[2].port) \o <<"/">>

(***************************************************************************)
(* The watch channel of the live state table against the stream tasks of   *)
(* api::get_servers.  The table is changed by send_modify with the         *)
(* closures of start_server and of the supervisor.                         *)
(***************************************************************************)
\* server_states_tx.send_modify(f): the value is modified in place and the
\* version is incremented, whether or not f changed the value
send_modify ==
    /\ version < MaxVersion
    /\ \E id \in ServerIds :
        \/ /\ Find(server_states, id) = 0
           /\ server_states' = PushStarting(server_states, id, version + 1)
        \/ \E p \in Ports : server_states' = SetRunning(server_states, id, p)
        \/ server_states' = Retain(server_states, id)
        \/ server_states' = ExitUpdate(server_states, id, "exit_fail")
    /\ version' = version + 1
    /\ UNCHANGED <<logVars, proxyVars, viewers, db, used, updates, sent, pc, todo, spec,
                   ret, run, port, stop_handles, logs, process, supervisor, tracing,
                   replies>>

get_servers_unfiltered(states, email) == states

\* .iter().filter(|s| s.spec.filen_email == session.filen_email).collect()
get_servers_filter(states, email) ==
    SelectSeq(states, LAMBDA s : filen_email(s.id) = email)

\* send_server_states: the rows of the session's account in the current
\* value are sent to the client
send_server_states(v, session, then) ==
    viewers' = [viewers EXCEPT
                    ![v].session = session,
                    ![v].got = IF viewers[v].client
                               THEN get_servers_filter(server_states, session) ELSE @,
                    ![v].pc = then]

\* `let _ = send_server_states();` at the start of the stream task
get_servers_first(v) ==
    /\ viewers[v].pc = "idle"
    /\ \E session \in Emails : send_server_states(v, session, "clone")
    /\ UNCHANGED <<orchVars, logVars, proxyVars, version>>

get_server_states_latest == version

\* ServerManagerApi::get_server_states: a clone of the api's receiver, which
\* has observed no version since the channel was created
get_server_states == 0

get_servers_clone(v) ==
    /\ viewers[v].pc = "clone"
    /\ viewers' = [viewers EXCEPT ![v].seen = get_server_states, ![v].pc = "changed"]
    /\ UNCHANGED <<orchVars, logVars, proxyVars, version>>

\* server_states.changed().await: ready once the version differs from the
\* one this receiver has seen, which it then marks as seen
get_servers_changed(v) ==
    /\ viewers[v].pc = "changed"
    /\ viewers[v].seen # version
    /\ viewers' = [viewers EXCEPT ![v].seen = version, ![v].pc = "send"]
    /\ UNCHANGED <<orchVars, logVars, proxyVars, version>>

\* if !send_server_states() { break; }
get_servers_send(v) ==
    /\ viewers[v].pc = "send"
    /\ send_server_states(v, viewers[v].session,
                          IF viewers[v].client THEN "changed" ELSE "ended")
    /\ UNCHANGED <<orchVars, logVars, proxyVars, version>>

\* the client of the stream goes away; later unbounded_send calls fail
viewer_disconnect(v) ==
    /\ viewers[v].pc \notin {"idle", "ended"}
    /\ viewers[v].client
    /\ viewers' = [viewers EXCEPT ![v].client = FALSE]
    /\ UNCHANGED <<orchVars, logVars, proxyVars, version>>

InitWatch ==
    /\ sink = IncrementalVec_new(Capacity)
    /\ subs = [s \in Subscribers |-> NoSubscriber]
    /\ request = NoRequest
    /\ target = NoTarget
    /\ version = 0
    /\ viewers = [v \in Viewers |-> NoViewer]
    /\ server_states = <<>>
    /\ db = {}
    /\ used = {}
    /\ updates = <<>>
    /\ sent = 0
    /\ pc = "recv"
    /\ todo = <<>>
    /\ spec = NoId
    /\ ret = "startup"
    /\ run = 0
    /\ port = NoPort
    /\ stop_handles = {}
    /\ logs = <<>>
    /\ process = <<>>
    /\ supervisor = <<>>
    /\ tracing = <<"", NoId>>
    /\ replies = <<>>

StreamTask(v) ==
    \/ get_servers_clone(v)
    \/ get_servers_changed(v)
    \/ get_servers_send(v)

NextWatch ==
    \/ send_modify
    \/ \E v \in Viewers : get_servers_first(v)
    \/ \E v \in Viewers : get_servers_clone(v)
    \/ \E v \in Viewers : get_servers_changed(v)
    \/ \E v \in Viewers : get_servers_send(v)
    \/ \E v \in Viewers : viewer_disconnect(v)

\* the stream tasks are tokio tasks: each runs whenever it can take a step
SpecWatch ==
    InitWatch /\ [][NextWatch]_vars /\ \A v \in Viewers : WF_vars(StreamTask(v))

\* the rows of a table that belong to an account, in the table's order
OwnRows(states, email) ==
    [i \in 1..Cardinality({k \in 1..Len(states) : filen_email(states[k].id) = email}) |->
        states[CHOOSE k \in 1..Len(states) :
            /\ filen_email(states[k].id) = email
            /\ Cardinality({j \in 1..k : filen_email(states[j].id) = email}) = i]]

Visible(email) == OwnRows(server_states, email)

\* C20: a viewer is first sent the table as it is when it subscribes, and
\* while it stays connected it is again and again in possession of the
\* latest table: no final value is missed, intermediate ones may be.  (Of
\* the table a viewer is sent the rows of its session's account.)
C20_LatestSnapshotArrives ==
    /\ [][\A v \in Viewers :
            (viewers[v].pc = "idle" /\ viewers'[v].pc # "idle")
                => viewers'[v].got = Visible(viewers'[v].session)]_vars
    /\ \A v \in Viewers :
        []<>(\/ viewers[v].pc = "idle"
             \/ ~ viewers[v].client
             \/ viewers[v].got = Visible(viewers[v].session))

\* a connected viewer holds the latest table after all modifications, having
\* subscribed before the first of them
C20_Witness ==
    \E v \in Viewers :
        /\ viewers[v].client
        /\ viewers[v].pc = "changed"
        /\ version = MaxVersion
        /\ viewers[v].seen = version
        /\ viewers[v].got = Visible(viewers[v].session)
        /\ Len(server_states) > 0

(***************************************************************************)
(* Producers and consumers together: pushes onto a log sink and            *)
(* modifications of the state table against the stream tasks of get_logs   *)
(* and get_servers.                                                        *)
(***************************************************************************)
NextStreams == NextLog \/ NextWatch

SpecStreams == InitWatch /\ [][NextStreams]_vars

\* the stream task of a log subscriber ends
LogStreamEnds(s) == subs[s].pc # "ended" /\ subs'[s].pc = "ended"

\* the stream task of a viewer ends
ViewStreamEnds(v) == viewers[v].pc # "ended" /\ viewers'[v].pc = "ended"

\* C21: no subscriber blocks a producer: a push and a modification of the
\* table can always be made, whatever the subscribers have left unconsumed
\* and whether or not their clients have gone, and the end of a stream
\* changes nothing but that stream.
C21_ProducersNeverBlocked ==
    /\ [](Len(sink.vec) < MaxLines => ENABLED push)
    /\ [](version < MaxVersion => ENABLED send_modify)
    /\ [][\A s \in Subscribers : LogStreamEnds(s) =>
            /\ sink'.vec = sink.vec
            /\ \A t \in Subscribers \ {s} : subs'[t] = subs[t]
            /\ viewers' = viewers
            /\ server_states' = server_states]_vars
    /\ [][\A v \in Viewers : ViewStreamEnds(v) =>
            /\ server_states' = server_states
            /\ version' = version
            /\ \A w \in Viewers \ {v} : viewers'[w] = viewers[w]
            /\ subs' = subs
            /\ sink' = sink]_vars

\* all lines were pushed and all modifications made past a log subscriber
\* that has fallen behind further than the channel holds and a viewer whose
\* client has gone
C21_Witness ==
    /\ Len(sink.vec) = MaxLines
    /\ version = MaxVersion
    /\ \E s \in Subscribers : subs[s].pc = "live" /\ Lagged(sink, subs[s].next)
    /\ \E v \in Viewers : viewers[v].pc = "changed" /\ ~ viewers[v].client

(***************************************************************************)
(* The reverse proxy beside the orchestrator: requests for the short ids   *)
(* of the instances are resolved while instances are started, stopped and  *)
(* exit.                                                                   *)
(***************************************************************************)
LiveIds == {short(id) : id \in ServerIds}

\* an inbound request on the route /s/{id} for the short id of an instance
proxy_route_live ==
    /\ \E id \in LiveIds :
        /\ request' = [route |-> "/s/{id}", id |-> id, rest |-> <<>>]
        /\ target' = resolve(Resolver("/s/{id}"), id, <<>>, server_states)
    /\ UNCHANGED <<orchVars, logVars, watchVars>>

NextResolve == Next \/ proxy_route_live

SpecResolve == Init /\ [][NextResolve]_vars

\* the answer to the request is the one the table gives at the call
LiveAnswer ==
    IF \E i \in Matching(request'.id) : server_states[i].status = "Running"
    THEN \A i \in Matching(request'.id) :
            server_states[i].status = "Running"
                => target' = Expected(request'.route, server_states[i].port, request'.rest)
    ELSE target' = NotFound

\* C31: in every reachable state, whatever earlier calls of resolve have
\* returned, no call of resolve can return anything but the answer of the
\* live table as it is at that moment: not-found when no row of the
\* requested id is Running then (the row was removed, is Starting or has
\* become Error), and the port of the Running row otherwise.
C31_ResolveReadsLiveTable == ~ ENABLED (proxy_route_live /\ ~ LiveAnswer)

\* a request was resolved to the port of a Running instance after another
\* instance, which had been Running, was stopped and its row removed
C31_Witness ==
    \E n, m \in Runs :
        /\ supervisor[n].pc = "done"
        /\ supervisor[n].res = "kill_ok"
        /\ RowsOf(IdOf(n)) = {}
        /\ StatusOf(server_states, IdOf(m))[1] = "Running"
        /\ request.id = short(IdOf(m))
        /\ target = Expected(request.route, process[m].port, <<>>)
        /\ process[m].port = StatusOf(server_states, IdOf(m))[2]

(***************************************************************************)
(* Sessions: the stream tasks of api::get_servers and the callers of       *)
(* api::remove_server, each in the session of one account, against a table *)
(* that holds rows of several accounts.                                    *)
(***************************************************************************)
NextSessions == NextWatch \/ remove_server

SpecSessions == InitWatch /\ [][NextSessions]_vars

\* the stream task of viewer v sends a snapshot
Sends(v) ==
    /\ viewers[v].pc \in {"idle", "send"}
    /\ viewers'[v].pc # viewers[v].pc
    /\ viewers[v].client

\* C38: a snapshot sent to a session holds rows of the session's account
\* only, and it is exactly the table's rows of that account in the table's
\* order; the snapshot made of the table is the one made of any other table
\* that differs from it only in the rows of other accounts; and a call of
\* remove_server in a session enqueues a Remove only for an id that has a
\* row of the session's account.
C38_SessionsAreSeparated ==
    /\ [](\A email \in Emails : \A other \in Tables :
            OwnRows(other, email) = OwnRows(server_states, email) =>
                get_servers_filter(other, email) = get_servers_filter(server_states, email))
    /\ [](\A v \in Viewers :
            viewers[v].pc # "idle" =>
                \A i \in 1..Len(viewers[v].got) :
                    filen_email(viewers[v].got[i].id) = viewers[v].session)
    /\ [][\A v \in Viewers :
            Sends(v) => viewers'[v].got = Visible(viewers'[v].session)]_vars
    /\ [][\A email \in Emails :
            (api_remove_server(email) /\ Len(updates') > Len(updates)) =>
                /\ updates'[Len(updates')].type = "Remove"
                /\ filen_email(updates'[Len(updates')].id) = email
                /\ Find(server_states, updates'[Len(updates')].id) # 0]_vars

\* the table holds a row of each account; a connected viewer was sent the
\* one row of its own account, and a Remove was enqueued
C38_Witness ==
    \E v \in Viewers :
        /\ Len(server_states) = 2
        /\ filen_email(server_states[1].id) # filen_email(server_states[2].id)
        /\ viewers[v].client
        /\ viewers[v].pc = "changed"
        /\ Len(viewers[v].got) = 1
        /\ filen_email(viewers[v].got[1].id) = viewers[v].session
        /\ Len(updates) = 1
        /\ updates[1].type = "Remove"

====
